---- MODULE Spec2Model ----
(***************************************************************************)
(* Model of the task manager's authentication library (lib/db.ts:          *)
(* hashPassword, verifyPassword, createToken, verifyToken, extractToken)   *)
(* and of the route handlers that use it.                                  *)
(*                                                                         *)
(* Strings that the code splits or compares piecewise (tokens, header      *)
(* values, stored credential hashes) are sequences of symbols.  A symbol   *)
(* is a literal character <<"c", ch>> or the output of an encoder, which   *)
(* stands for a run of characters of that encoder's alphabet:              *)
(*   <<"b64", text>>       base64url of a text (alphabet has no '.', ' ')  *)
(*   <<"mac", key, input>> base64url of HMAC-SHA256(key, input)            *)
(*   <<"hex", bytes>>      lower-case hex of bytes (alphabet has no ':')   *)
(* HMAC and PBKDF2 are taken as injective; the encoders are injective.     *)
(*                                                                         *)
(* JavaScript values are tagged tuples: <<"undef">>, <<"null">>, <<"nan">>,*)
(* <<"num", n>>, <<"str", s>>, <<"bool", b>>, <<"obj", fields>> with       *)
(* fields a sequence of <<key, value>> in insertion order.  Where a value   *)
(* may be a string or null or undefined (a header value, the result of     *)
(* extractToken), the string is wrapped as <<"s", symbols>>.               *)
(***************************************************************************)
EXTENDS Integers, Sequences, FiniteSets, TLC

VARIABLES now, jwtSecret, issued, lastV, lastX, lastH, lastP,
          users, tasks, nextId, reqs,
          jwtExpireIn, jwtRefreshExpireIn, auths, calls, frames

\* the configured token lifetimes and the register and login requests
authVars == <<jwtExpireIn, jwtRefreshExpireIn, auths>>

\* the invocations of the library functions in progress and their locals
callVars == <<calls, frames>>

\* the database tables and the requests in flight
apiVars == <<users, tasks, nextId, reqs, authVars, callVars>>

\* the calls of the library functions made outside a request
libVars == <<issued, lastV, lastX, lastH, lastP>>

vars == <<now, jwtSecret, issued, lastV, lastX, lastH, lastP,
          users, tasks, nextId, reqs,
          jwtExpireIn, jwtRefreshExpireIn, auths, calls, frames>>

(***************************************************************************)
(* Bounds of the model.                                                    *)
(***************************************************************************)
MaxClock == 3
MaxTtl == 2
MaxTasks == 2

(***************************************************************************)
(* JavaScript values.                                                      *)
(***************************************************************************)
Undefined == <<"undef">>
Null == <<"null">>
NaN == <<"nan">>
Throw == <<"throw">>
None == <<"none">>
Num(n) == <<"num", n>>
Str(s) == <<"str", s>>
Bool(b) == <<"bool", b>>
Obj(fields) == <<"obj", fields>>
S(symbols) == <<"s", symbols>>

IsObj(v) == v[1] = "obj"
IsNum(v) == v[1] = "num"

\* obj[key]: the value of a property;
\* reading a property of null or undefined throws a TypeError, and a
\* primitive has no own property of these names.
Get(v, key) ==
  IF v = Null \/ v = Undefined THEN Throw
  ELSE IF ~IsObj(v) THEN Undefined
  ELSE LET f == v[2]
           hit == {i \in 1..Len(f) : f[i][1] = key}
       IN IF hit = {} THEN Undefined ELSE f[CHOOSE i \in hit : TRUE][2]

\* { ...obj, key: value }: an existing key keeps its position and takes the
\* new value, a new key is appended.
Put(fields, key, value) ==
  IF \E i \in 1..Len(fields) : fields[i][1] = key
  THEN [i \in 1..Len(fields) |->
          IF fields[i][1] = key THEN <<key, value>> ELSE fields[i]]
  ELSE Append(fields, <<key, value>>)

\* ToBoolean
Truthy(v) ==
  CASE v[1] = "undef" -> FALSE
    [] v[1] = "null" -> FALSE
    [] v[1] = "nan" -> FALSE
    [] v[1] = "num" -> v[2] # 0
    [] v[1] = "str" -> v[2] # ""
    [] v[1] = "bool" -> v[2]
    [] v[1] = "s" -> v[2] # <<>>
    [] OTHER -> TRUE

\* a + b on numbers
NumAdd(a, b) == IF IsNum(a) /\ IsNum(b) THEN Num(a[2] + b[2]) ELSE NaN

\* a < b with b a number: false when a converts to NaN (undefined, NaN, a
\* non-numeric string, an object); null converts to 0, booleans to 0 and 1.
JsLess(a, b) ==
  CASE a[1] = "num" -> a[2] < b
    [] a[1] = "null" -> 0 < b
    [] a[1] = "bool" -> (IF a[2] THEN 1 ELSE 0) < b
    [] OTHER -> FALSE

(***************************************************************************)
(* JSON texts: <<"tobj", pairs>> an object literal, <<"tlit", v>> another  *)
(* JSON value at the top level, <<"tbad">> a text that is not JSON.        *)
(***************************************************************************)
TBad == <<"tbad">>

\* JSON.stringify of one property value: NaN is written as null.
JsonLit(v) == IF v = NaN THEN Null ELSE v

\* JSON.stringify: properties whose value is undefined are left out.
RECURSIVE JsonFields(_)
JsonFields(fields) ==
  IF fields = <<>> THEN <<>>
  ELSE LET h == Head(fields)
           rest == JsonFields(Tail(fields))
       IN IF h[2] = Undefined THEN rest
          ELSE << <<h[1], JsonLit(h[2])>> >> \o rest

JsonStringify(v) ==
  IF IsObj(v) THEN <<"tobj", JsonFields(v[2])>> ELSE <<"tlit", JsonLit(v)>>

\* JSON.parse losing the last property of an object
JsonParse_DropsLast(text) ==
  CASE text[1] = "tobj" -> Obj(SubSeq(text[2], 1, Len(text[2]) - 1))
    [] text[1] = "tlit" -> text[2]
    [] OTHER -> Throw

\* JSON.parse: throws a SyntaxError on a text that is not JSON.
JsonParse(text) ==
  CASE text[1] = "tobj" -> Obj(text[2])
    [] text[1] = "tlit" -> text[2]
    [] OTHER -> Throw

(***************************************************************************)
(* Symbol strings.                                                         *)
(***************************************************************************)
Ch(c) == <<"c", c>>
Chars(s) == [i \in 1..Len(s) |-> Ch(s[i])]
Dot == Ch(".")
Space == Ch(" ")
Colon == Ch(":")

\* String.prototype.split(d): the pieces between the occurrences of d; a
\* string without d, the empty string included, gives one piece.
RECURSIVE Split(_, _)
Split(s, d) ==
  IF \A i \in 1..Len(s) : s[i] # d THEN <<s>>
  ELSE LET i == CHOOSE k \in 1..Len(s) :
                  s[k] = d /\ \A j \in 1..(k - 1) : s[j] # d
       IN <<SubSeq(s, 1, i - 1)>> \o Split(SubSeq(s, i + 1, Len(s)), d)

\* Buffer.from(text).toString('base64url')
Base64Url(text) == << <<"b64", text>> >>

\* Buffer.from(seg, 'base64url').toString(): never throws.  A segment that is
\* not the encoding of a JSON text decodes to bytes that are not JSON.
Base64UrlDecode(seg) ==
  IF Len(seg) = 1 /\ seg[1][1] = "b64" THEN seg[1][2] ELSE TBad

\* crypto.createHmac('sha256', secret).update(input).digest('base64url')
Hmac(secret, input) == << <<"mac", secret, input>> >>

(***************************************************************************)
(* lib/db.ts: the token codec.                                             *)
(***************************************************************************)
\* process.env.JWT_SECRET || 'default-secret' ("" stands for unset or empty)
Secret(env) == IF env = "" THEN "default-secret" ELSE env

Header == Obj(<< <<"alg", Str("HS256")>>, <<"typ", Str("JWT")>> >>)

\* createToken with exp set to the lifetime instead of now + lifetime
createToken_ExpIsLifetime(payload, expiresIn, t, env) ==
  LET tokenPayload == Obj(Put(Put(payload[2], "iat", Num(t)), "exp", expiresIn))
      signatureInput == Base64Url(JsonStringify(Header)) \o <<Dot>>
                          \o Base64Url(JsonStringify(tokenPayload))
  IN signatureInput \o <<Dot>> \o Hmac(Secret(env), signatureInput)

\* createToken keeping an iat or exp that the caller's claims already carry
createToken_CallerClaimsWin(payload, expiresIn, t, env) ==
  LET iat == IF Get(payload, "iat") = Undefined THEN Num(t) ELSE Get(payload, "iat")
      exp == IF Get(payload, "exp") = Undefined THEN NumAdd(Num(t), expiresIn)
             ELSE Get(payload, "exp")
      tokenPayload == Obj(Put(Put(payload[2], "iat", iat), "exp", exp))
      signatureInput == Base64Url(JsonStringify(Header)) \o <<Dot>>
                          \o Base64Url(JsonStringify(tokenPayload))
  IN signatureInput \o <<Dot>> \o Hmac(Secret(env), signatureInput)

\* createToken(payload, expiresIn) at clock second t under environment env
createToken(payload, expiresIn, t, env) ==
  LET tokenPayload == Obj(Put(Put(payload[2], "iat", Num(t)),
                              "exp", NumAdd(Num(t), expiresIn)))
      headerEncoded == Base64Url(JsonStringify(Header))
      payloadEncoded == Base64Url(JsonStringify(tokenPayload))
      signatureInput == headerEncoded \o <<Dot>> \o payloadEncoded
      signature == Hmac(Secret(env), signatureInput)
  IN signatureInput \o <<Dot>> \o signature

\* the payload decoded from its segment, the expiry check and the return
CheckedPayload(seg, t) ==
  LET payload == JsonParse(Base64UrlDecode(seg)) IN
  IF payload = Throw THEN Throw
  ELSE LET exp == Get(payload, "exp") IN
       IF exp = Throw THEN Throw
       ELSE IF Truthy(exp) /\ JsLess(exp, t) THEN Null
       ELSE payload

\* verifyToken's try block without the signature comparison
verifyTokenTry_NoSignatureCheck(token, t, env) ==
  LET parts == Split(token, Dot) IN
  IF Len(parts) # 3 THEN Null ELSE CheckedPayload(parts[2], t)

\* verifyToken's try block rejecting only fewer than three segments
verifyTokenTry_AtLeastThree(token, t, env) ==
  LET parts == Split(token, Dot) IN
  IF Len(parts) < 3 THEN Null
  ELSE IF Hmac(Secret(env), parts[1] \o <<Dot>> \o parts[2]) # parts[3] THEN Null
  ELSE CheckedPayload(parts[2], t)

\* the body of verifyToken's try block; Throw where it throws
verifyTokenTry(token, t, env) ==
  LET parts == Split(token, Dot) IN
  IF Len(parts) # 3 THEN Null
  ELSE
    LET signatureInput == parts[1] \o <<Dot>> \o parts[2]
        signatureComputed == Hmac(Secret(env), signatureInput)
    IN IF signatureComputed # parts[3] THEN Null
       ELSE CheckedPayload(parts[2], t)

\* verifyToken(token) at clock second t: the catch block returns null
verifyToken(token, t, env) ==
  LET r == verifyTokenTry(token, t, env) IN
  IF r = Throw THEN Null ELSE r

\* extractToken with the scheme word not compared
extractToken_AnyScheme(authHeader) ==
  IF ~Truthy(authHeader) THEN Null
  ELSE LET parts == Split(authHeader[2], Space) IN
       IF Len(parts) = 2 THEN S(parts[2]) ELSE Null

\* extractToken(authHeader): authHeader is a string or Undefined
extractToken(authHeader) ==
  IF ~Truthy(authHeader) THEN Null
  ELSE LET parts == Split(authHeader[2], Space) IN
       IF Len(parts) = 2 /\ parts[1] = Chars(<<"B", "e", "a", "r", "e", "r">>)
       THEN S(parts[2])
       ELSE Null

(***************************************************************************)
(* lib/db.ts: the credential hasher.                                       *)
(***************************************************************************)
\* buf.toString('hex')
Hex(bytes) == << <<"hex", bytes>> >>

\* crypto.pbkdf2Sync(password, salt, 100000, 64, 'sha512')
Pbkdf2(password, salt) == <<"pbkdf2", password, salt>>

\* hashPassword deriving from the raw salt bytes instead of their hex string
hashPassword_RawSalt(password, saltBytes) ==
  Hex(saltBytes) \o <<Colon>> \o Hex(Pbkdf2(password, saltBytes))

\* hashPassword(password) with saltBytes the value of crypto.randomBytes(16)
hashPassword(password, saltBytes) ==
  LET salt == Hex(saltBytes)
      hash == Hex(Pbkdf2(password, salt))
  IN salt \o <<Colon>> \o hash

\* verifyPassword with the comparison dropped: any stored hash segment passes
verifyPassword_NoCompare(password, hash) == Len(Split(hash, Colon)) >= 2

\* verifyPassword(password, hash): the destructuring takes the first two
\* pieces and leaves storedHash undefined when there is no second piece
verifyPassword(password, hash) ==
  LET parts == Split(hash, Colon)
      salt == parts[1]
      storedHash == IF Len(parts) >= 2 THEN S(parts[2]) ELSE Undefined
      computedHash == S(Hex(Pbkdf2(password, salt)))
  IN computedHash = storedHash

(***************************************************************************)
(* The route handlers.  A request occupies a slot; a handler runs in steps *)
(* that end where the code awaits the database, so the steps of requests   *)
(* in different slots interleave.  Task ids are the creation sequence      *)
(* numbers, so that ordering by id is ordering by createdAt; updatedAt is  *)
(* the clock second of the last write of the row.                          *)
(***************************************************************************)
Slots == {"r1", "r2"}

ReqIdle ==
  [pc |-> "idle", method |-> "", header |-> None, payload |-> None, id |-> 0,
   q |-> None, status |-> 0, error |-> "", out |-> None, dbOps |-> 0]

\* String.prototype.trim on a symbol string
RECURSIVE TrimLeft(_)
TrimLeft(s) == IF s # <<>> /\ Head(s) = Space THEN TrimLeft(Tail(s)) ELSE s

RECURSIVE TrimRight(_)
TrimRight(s) ==
  IF s # <<>> /\ s[Len(s)] = Space THEN TrimRight(SubSeq(s, 1, Len(s) - 1)) ELSE s

Trim(s) == TrimRight(TrimLeft(s))

\* case folding of a character, for Prisma's mode: 'insensitive'
Lower(sym) ==
  IF sym = Ch("T") THEN Ch("t") ELSE IF sym = Ch("U") THEN Ch("u") ELSE sym

\* title contains search, ignoring case
Contains(title, search) ==
  \E i \in 1..(Len(title) - Len(search) + 1) :
    \A j \in 1..Len(search) : Lower(title[i + j - 1]) = Lower(search[j])

\* a Prisma where clause: a condition whose value is undefined is ignored
Matches(task, where) ==
  /\ where.id # Undefined => Num(task.id) = where.id
  /\ where.userId # Undefined => task.userId = where.userId
  /\ where.status # Undefined => Str(task.status) = where.status
  /\ where.search # Undefined => Contains(task.title, where.search[2])

Where(id, userId, status, search) ==
  [id |-> id, userId |-> userId, status |-> status, search |-> search]

\* the ids of the selected tasks, newest first (orderBy createdAt desc)
RECURSIVE Descending(_)
Descending(ids) ==
  IF ids = {} THEN <<>>
  ELSE LET m == CHOOSE x \in ids : \A y \in ids : y <= x
       IN <<m>> \o Descending(ids \ {m})

TaskById(id) == CHOOSE t \in tasks : t.id = id

\* the answer of a handler: the slot keeps the method, the verified payload,
\* the status, the error text and the response data
Respond(r, status, error, out, ops) ==
  reqs' = [reqs EXCEPT ![r] =
             [pc |-> "done", method |-> reqs[r].method, header |-> None,
              payload |-> reqs[r].payload, id |-> 0, q |-> None,
              status |-> status, error |-> error, out |-> out,
              dbOps |-> reqs[r].dbOps + ops]]

\* what each handler answers from its catch block
CatchError(method) ==
  CASE method = "POST" -> "Failed to create task"
    [] method = "GET" -> "Failed to fetch tasks"
    [] method = "DELETE" -> "Failed to delete task"
    [] OTHER -> "Failed to update task"

\* a request arrives: method and Authorization header (Null when absent)
Receive(r, method, header) ==
  /\ reqs[r].pc \in {"idle", "done"}
  /\ reqs' = [reqs EXCEPT ![r] =
                [ReqIdle EXCEPT !.pc = "received", !.method = method,
                                !.header = header]]
  /\ UNCHANGED <<now, jwtSecret, libVars, authVars, callVars, users, tasks, nextId>>

\* the guard every task handler starts with, with the verifyToken step left out
AuthResult_NoVerify(header, t, env) ==
  LET token == extractToken(IF Truthy(header) THEN header ELSE S(<<>>)) IN
  IF ~Truthy(token) THEN [status |-> 401, error |-> "Missing or invalid authorization header",
                          payload |-> None]
  ELSE [status |-> 0, error |-> "", payload |-> Obj(<<>>)]

\* the guard every task handler starts with: extractToken on the header
\* (or '' when absent), then verifyToken
AuthResult(header, t, env) ==
  LET token == extractToken(IF Truthy(header) THEN header ELSE S(<<>>)) IN
  IF ~Truthy(token)
  THEN [status |-> 401, error |-> "Missing or invalid authorization header",
        payload |-> None]
  ELSE LET payload == verifyToken(token[2], t, env) IN
       IF ~Truthy(payload)
       THEN [status |-> 401, error |-> "Invalid or expired token", payload |-> None]
       ELSE [status |-> 0, error |-> "", payload |-> payload]

Authenticate(r) ==
  /\ reqs[r].pc = "received"
  /\ LET a == AuthResult(reqs[r].header, now, jwtSecret) IN
     IF a.status = 401
     THEN Respond(r, 401, a.error, None, 0)
     ELSE reqs' = [reqs EXCEPT ![r].pc = "authed", ![r].header = None,
                               ![r].payload = a.payload]
  /\ UNCHANGED <<now, jwtSecret, libVars, authVars, callVars, users, tasks, nextId>>

\* POST /api/tasks after the guard: body is the value of req.json(), or Throw
PostCreate(r, body) ==
  /\ reqs[r].pc = "authed"
  /\ reqs[r].method = "POST"
  /\ nextId <= MaxTasks
  /\ LET title == Get(body, "title")
         description == Get(body, "description")
         userId == Get(reqs[r].payload, "userId")
     IN
     IF body = Throw \/ title = Throw
     THEN Respond(r, 500, CatchError("POST"), None, 0) /\ UNCHANGED <<tasks, nextId>>
     ELSE IF ~Truthy(title)
     THEN Respond(r, 400, "Task title is required", None, 0) /\ UNCHANGED <<tasks, nextId>>
     ELSE IF title[1] # "s"
     THEN Respond(r, 500, CatchError("POST"), None, 0) /\ UNCHANGED <<tasks, nextId>>
     ELSE IF Len(Trim(title[2])) = 0
     THEN Respond(r, 400, "Task title is required", None, 0) /\ UNCHANGED <<tasks, nextId>>
     ELSE IF userId \notin {u.id : u \in users}
             \/ (Truthy(description) /\ description[1] # "s")
     THEN Respond(r, 500, CatchError("POST"), None, 1) /\ UNCHANGED <<tasks, nextId>>
     ELSE LET task == [id |-> nextId, userId |-> userId, title |-> title[2],
                       description |-> IF Truthy(description) THEN description ELSE Null,
                       status |-> "PENDING", updatedAt |-> now]
          IN /\ tasks' = tasks \cup {task}
             /\ nextId' = nextId + 1
             /\ Respond(r, 201, "Task created successfully", <<"task", task>>, 1)
  /\ UNCHANGED <<now, jwtSecret, libVars, authVars, callVars, users>>

\* a query parameter read with parseInt(value || fallback): Null when the
\* parameter is absent, else the parsed number (NaN for a non-numeric text)
QueryInt(value, fallback) == IF value = Null THEN Num(fallback) ELSE value

\* Math.max(1, x) and Math.min(100, x): NaN when x is NaN
MathMax1(x) == IF x = NaN THEN NaN ELSE IF x[2] < 1 THEN Num(1) ELSE x
MathMin100(x) == IF x = NaN THEN NaN ELSE IF x[2] > 100 THEN Num(100) ELSE x

\* GET /api/tasks after the guard, up to prisma.task.count
GetCount(r, pageParam, limitParam, status, search) ==
  /\ reqs[r].pc = "authed"
  /\ reqs[r].method = "GET"
  /\ LET page == MathMax1(QueryInt(pageParam, 1))
         limit == MathMin100(QueryInt(limitParam, 10))
         where == Where(Undefined, Get(reqs[r].payload, "userId"),
                        IF status \in {Str("PENDING"), Str("COMPLETED")}
                        THEN status ELSE Undefined,
                        IF Truthy(search) /\ Len(Trim(search[2])) > 0
                        THEN search ELSE Undefined)
         total == Cardinality({t \in tasks : Matches(t, where)})
     IN reqs' = [reqs EXCEPT ![r].pc = "counted", ![r].dbOps = 1,
                             ![r].q = <<"q", [page |-> page, limit |-> limit,
                                              where |-> where, total |-> total]>>]
  /\ UNCHANGED <<now, jwtSecret, libVars, authVars, callVars, users, tasks, nextId>>

\* Math.ceil(total / limit): Infinity or NaN (both written as null by
\* JSON) when limit is 0, NaN when limit is NaN
CeilDiv(total, limit) ==
  IF limit = NaN \/ limit[2] = 0 THEN Null
  ELSE IF limit[2] > 0 THEN Num((total + limit[2] - 1) \div limit[2])
  ELSE Num(0 - (total \div (0 - limit[2])))

\* findMany's skip and take on the ordered rows: a negative take selects
\* from the end of the order
Page(rows, skip, take) ==
  IF take >= 0
  THEN SubSeq(rows, skip + 1, IF skip + take > Len(rows) THEN Len(rows) ELSE skip + take)
  ELSE LET last == Len(rows) - skip
           first == IF last + take + 1 < 1 THEN 1 ELSE last + take + 1
       IN SubSeq(rows, first, last)

\* GET /api/tasks: prisma.task.findMany and the response
GetList(r) ==
  /\ reqs[r].pc = "counted"
  /\ LET q == reqs[r].q[2]
         ids == Descending({t.id : t \in {t \in tasks : Matches(t, q.where)}})
         rows == [i \in 1..Len(ids) |-> TaskById(ids[i])]
     IN
     IF q.page = NaN \/ q.limit = NaN \/ (q.page[2] - 1) * q.limit[2] < 0
     THEN Respond(r, 500, CatchError("GET"), None, 1)
     ELSE Respond(r, 200, "",
                  <<"list", [tasks |-> Page(rows, (q.page[2] - 1) * q.limit[2], q.limit[2]),
                             page |-> q.page, limit |-> q.limit, total |-> q.total,
                             totalPages |-> CeilDiv(q.total, q.limit)]>>, 1)
  /\ UNCHANGED <<now, jwtSecret, libVars, authVars, callVars, users, tasks, nextId>>

\* PATCH and PUT /api/tasks/[id] after the guard: prisma.task.findFirst
PatchFind(r, id) ==
  /\ reqs[r].pc = "authed"
  /\ reqs[r].method \in {"PATCH", "PUT"}
  /\ LET where == Where(Num(id), Get(reqs[r].payload, "userId"), Undefined, Undefined) IN
     IF \E t \in tasks : Matches(t, where)
     THEN reqs' = [reqs EXCEPT ![r].pc = "found", ![r].id = id, ![r].dbOps = 1]
     ELSE Respond(r, 404, "Task not found", None, 1)
  /\ UNCHANGED <<now, jwtSecret, libVars, authVars, callVars, users, tasks, nextId>>

\* the data object PATCH builds from the body: the fields that are present
UpdateData(body) ==
  LET title == Get(body, "title")
      description == Get(body, "description")
      status == Get(body, "status")
  IN (IF title # Undefined THEN << <<"title", title>> >> ELSE <<>>)
     \o (IF description # Undefined
         THEN << <<"description", IF Truthy(description) THEN description ELSE Null>> >>
         ELSE <<>>)
     \o (IF status # Undefined THEN << <<"status", status>> >> ELSE <<>>)

\* prisma.task.update writing null into the description when the data
\* does not name it
Updated_ClearsAbsent(task, data) ==
  LET d == Obj(data) IN
  [task EXCEPT
     !.title = IF Get(d, "title") = Undefined THEN @ ELSE Get(d, "title")[2],
     !.description = IF Get(d, "description") = Undefined THEN Null
                     ELSE Get(d, "description"),
     !.status = IF Get(d, "status") = Undefined THEN @ ELSE Get(d, "status")[2]]

\* the row after prisma.task.update applied data to it
Updated(task, data) ==
  LET d == Obj(data) IN
  [task EXCEPT
     !.title = IF Get(d, "title") = Undefined THEN @ ELSE Get(d, "title")[2],
     !.description = IF Get(d, "description") = Undefined THEN @ ELSE Get(d, "description"),
     !.status = IF Get(d, "status") = Undefined THEN @ ELSE Get(d, "status")[2]]

\* the trigger update_tasks_updated_at: before a row of tasks is updated,
\* its updated_at is set to the current time
Touched(row, t) == [row EXCEPT !.updatedAt = t]

\* Prisma rejects data that does not fit the column types: title is a
\* required string, status one of the enum's values
ValidData(data) ==
  LET d == Obj(data) IN
  /\ Get(d, "title") = Undefined \/ Get(d, "title")[1] = "s"
  /\ Get(d, "description") \in {Undefined, Null} \/ Get(d, "description")[1] = "s"
  /\ Get(d, "status") \in {Undefined, Str("PENDING"), Str("COMPLETED")}

\* PATCH and PUT: req.json(), the update data, prisma.task.update by id
PatchUpdate(r, body) ==
  /\ reqs[r].pc = "found"
  /\ IF body = Throw \/ body = Null
     THEN Respond(r, 500, CatchError("PATCH"), None, 0) /\ UNCHANGED tasks
     ELSE LET data == UpdateData(body) IN
          IF data = <<>>
          THEN Respond(r, 400, "No fields to update", None, 0) /\ UNCHANGED tasks
          ELSE IF ~ValidData(data) \/ ~\E t \in tasks : t.id = reqs[r].id
          THEN Respond(r, 500, CatchError("PATCH"), None, 1) /\ UNCHANGED tasks
          ELSE LET old == TaskById(reqs[r].id)
                   new == Touched(Updated(old, data), now)
               IN /\ tasks' = (tasks \ {old}) \cup {new}
                  /\ Respond(r, 200, "Task updated successfully", <<"task", new>>, 1)
  /\ UNCHANGED <<now, jwtSecret, libVars, authVars, callVars, users, nextId>>

\* DELETE /api/tasks/[id] after the guard: prisma.task.deleteMany
Delete(r, id) ==
  /\ reqs[r].pc = "authed"
  /\ reqs[r].method = "DELETE"
  /\ LET where == Where(Num(id), Get(reqs[r].payload, "userId"), Undefined, Undefined)
         hit == {t \in tasks : Matches(t, where)}
     IN /\ tasks' = tasks \ hit
        /\ IF hit = {}
           THEN Respond(r, 404, "Task not found", None, 1)
           ELSE Respond(r, 200, "Task deleted successfully", None, 1)
  /\ UNCHANGED <<now, jwtSecret, libVars, authVars, callVars, users, nextId>>

(***************************************************************************)
(* POST /api/auth/register and POST /api/auth/login.  A request occupies a *)
(* slot of auths; a step ends where the code awaits the database.  The     *)
(* optional name of a user takes no part in any decision and is left out   *)
(* of the rows.                                                            *)
(***************************************************************************)
AuthIdle ==
  [pc |-> "idle", kind |-> "", body |-> None, user |-> None, ttl |-> None,
   status |-> 0, error |-> "", out |-> None]

\* the digit a character stands for
Digits == <<"0", "1", "2", "3", "4", "5", "6", "7", "8", "9">>

IsDigit(sym) == \E d \in 1..10 : sym = Ch(Digits[d])

DigitValue(sym) == (CHOOSE d \in 1..10 : sym = Ch(Digits[d])) - 1

\* the number written by the leading digits of s, continuing from acc
RECURSIVE LeadingDigits(_, _)
LeadingDigits(s, acc) ==
  IF s = <<>> \/ ~IsDigit(Head(s)) THEN acc
  ELSE LeadingDigits(Tail(s), 10 * acc + DigitValue(Head(s)))

\* parseInt(s) on a decimal text: leading blanks and a sign are skipped, the
\* leading digits are read and whatever follows them is ignored; NaN when
\* there is no leading digit
ParseInt(s) ==
  LET t == TrimLeft(s)
      signed == t # <<>> /\ Head(t) \in {Ch("-"), Ch("+")}
      u == IF signed THEN Tail(t) ELSE t
  IN IF u = <<>> \/ ~IsDigit(Head(u)) THEN NaN
     ELSE IF signed /\ Head(t) = Ch("-") THEN Num(0 - LeadingDigits(u, 0))
     ELSE Num(LeadingDigits(u, 0))

\* s.includes(c) for a one-character c
Includes(s, c) == \E i \in 1..Len(s) : s[i] = Ch(c)

\* a * n on numbers
NumMul(a, n) == IF IsNum(a) THEN Num(a[2] * n) ELSE NaN

\* register's accessExpiry and refreshExpiry from the two environment
\* values (Undefined when unset, else S(text))
RegisterExpiry(expireIn, refreshExpireIn) ==
  [access |-> IF expireIn # Undefined /\ Includes(expireIn[2], "m")
              THEN NumMul(ParseInt(expireIn[2]), 60)
              ELSE ParseInt(IF Truthy(expireIn) THEN expireIn[2]
                            ELSE Chars(<<"9", "0", "0">>)),
   refresh |-> IF refreshExpireIn # Undefined /\ Includes(refreshExpireIn[2], "d")
               THEN NumMul(ParseInt(refreshExpireIn[2]), 86400)
               ELSE ParseInt(IF Truthy(refreshExpireIn) THEN refreshExpireIn[2]
                             ELSE Chars(<<"6", "0", "4", "8", "0", "0">>))]

\* login's accessExpiry and refreshExpiry
LoginExpiry(expireIn, refreshExpireIn) ==
  LET accessExpiry ==
        IF expireIn # Undefined /\ Includes(expireIn[2], "m")
        THEN NumMul(ParseInt(expireIn[2]), 60)
        ELSE ParseInt(IF Truthy(expireIn) THEN expireIn[2]
                      ELSE Chars(<<"9", "0", "0">>))
      refreshExpiry ==
        IF refreshExpireIn # Undefined /\ Includes(refreshExpireIn[2], "d")
        THEN NumMul(ParseInt(refreshExpireIn[2]), 86400)
        ELSE ParseInt(IF Truthy(refreshExpireIn) THEN refreshExpireIn[2]
                      ELSE Chars(<<"6", "0", "4", "8", "0", "0">>))
  IN [access |-> accessExpiry, refresh |-> refreshExpiry]

\* the two tokens minted for a user row, with the refresh token's claims
\* reduced to the userId
SessionTokens_RefreshWithoutEmail(user, ttl, t, env) ==
  [accessToken |-> createToken(Obj(<< <<"userId", user.id>>, <<"email", user.email>> >>),
                               ttl.access, t, env),
   refreshToken |-> createToken(Obj(<< <<"userId", user.id>> >>), ttl.refresh, t, env)]

\* the two tokens minted for a user row: the same claims, two lifetimes
SessionTokens(user, ttl, t, env) ==
  [accessToken |-> createToken(Obj(<< <<"userId", user.id>>, <<"email", user.email>> >>),
                               ttl.access, t, env),
   refreshToken |-> createToken(Obj(<< <<"userId", user.id>>, <<"email", user.email>> >>),
                                ttl.refresh, t, env)]

\* the response body of a successful register or login
Session(user, tokens) ==
  <<"session", [user |-> [id |-> user.id, email |-> user.email],
                accessToken |-> tokens.accessToken,
                refreshToken |-> tokens.refreshToken]>>

AuthRespond(r, status, error, out, ttl) ==
  auths' = [auths EXCEPT ![r] =
              [pc |-> "done", kind |-> auths[r].kind, body |-> auths[r].body,
               user |-> None, ttl |-> ttl, status |-> status, error |-> error,
               out |-> out]]

\* a register or login request arrives with a body (Throw when req.json()
\* rejects)
AuthReceive(r, kind, body) ==
  /\ auths[r].pc \in {"idle", "done"}
  /\ auths' = [auths EXCEPT ![r] =
                 [AuthIdle EXCEPT !.pc = "received", !.kind = kind, !.body = body]]
  /\ UNCHANGED <<now, jwtSecret, jwtExpireIn, jwtRefreshExpireIn, libVars, callVars,
                 users, tasks, nextId, reqs>>

\* findUnique returning some stored user whatever the email
FindUser_AnyUser(email) ==
  IF users # {} THEN <<"user", CHOOSE u \in users : TRUE>> ELSE Null

\* findUnique({where: {email}}): the row, or Null
FindUser(email) ==
  IF \E u \in users : u.email = email
  THEN <<"user", CHOOSE u \in users : u.email = email>>
  ELSE Null

\* register: the validation and prisma.user.findUnique
RegisterFind(r) ==
  /\ auths[r].pc = "received"
  /\ auths[r].kind = "register"
  /\ LET body == auths[r].body
         email == Get(body, "email")
         password == Get(body, "password")
     IN
     IF body = Throw \/ email = Throw
     THEN AuthRespond(r, 500, "Failed to register user", None, None)
     ELSE IF ~Truthy(email) \/ ~Truthy(password)
     THEN AuthRespond(r, 400, "Email and password are required", None, None)
     ELSE IF password[1] = "str" /\ Len(password[2]) < 6
     THEN AuthRespond(r, 400, "Password must be at least 6 characters", None, None)
     ELSE IF email[1] # "str"
     THEN AuthRespond(r, 500, "Failed to register user", None, None)
     ELSE IF FindUser(email) # Null
     THEN AuthRespond(r, 409, "User already exists", None, None)
     ELSE auths' = [auths EXCEPT ![r].pc = "checked"]
  /\ UNCHANGED <<now, jwtSecret, jwtExpireIn, jwtRefreshExpireIn, libVars, callVars,
                 users, tasks, nextId, reqs>>

\* register: hashPassword, the new id, prisma.user.create (which throws on
\* a duplicate email or id), the two tokens and the response
RegisterCreate(r, saltBytes, random) ==
  /\ auths[r].pc = "checked"
  /\ LET email == Get(auths[r].body, "email")
         password == Get(auths[r].body, "password")
         userId == Str("user_" \o ToString(now) \o "_" \o random)
     IN
     IF password[1] # "str" \/ \E u \in users : u.email = email \/ u.id = userId
     THEN AuthRespond(r, 500, "Failed to register user", None, None)
          /\ UNCHANGED users
     ELSE LET user == [id |-> userId, email |-> email,
                       password |-> hashPassword(password[2], saltBytes)]
              ttl == RegisterExpiry(jwtExpireIn, jwtRefreshExpireIn)
          IN /\ users' = users \cup {user}
             /\ AuthRespond(r, 201, "User registered successfully",
                            Session(user, SessionTokens(user, ttl, now, jwtSecret)),
                            <<"ttl", ttl>>)
  /\ UNCHANGED <<now, jwtSecret, jwtExpireIn, jwtRefreshExpireIn, libVars, callVars,
                 tasks, nextId, reqs>>

\* login: the validation and prisma.user.findUnique
LoginFind(r) ==
  /\ auths[r].pc = "received"
  /\ auths[r].kind = "login"
  /\ LET body == auths[r].body
         email == Get(body, "email")
         password == Get(body, "password")
     IN
     IF body = Throw \/ email = Throw
     THEN AuthRespond(r, 500, "Failed to login", None, None)
     ELSE IF ~Truthy(email) \/ ~Truthy(password)
     THEN AuthRespond(r, 400, "Email and password are required", None, None)
     ELSE IF email[1] # "str"
     THEN AuthRespond(r, 500, "Failed to login", None, None)
     ELSE auths' = [auths EXCEPT ![r].pc = "looked", ![r].user = FindUser(email)]
  /\ UNCHANGED <<now, jwtSecret, jwtExpireIn, jwtRefreshExpireIn, libVars, callVars,
                 users, tasks, nextId, reqs>>

\* login: the user found or not, verifyPassword, the two tokens, the response
LoginAnswer(r) ==
  /\ auths[r].pc = "looked"
  /\ LET user == auths[r].user
         password == Get(auths[r].body, "password")
     IN
     IF user = Null
     THEN AuthRespond(r, 401, "Invalid email or password", None, None)
     ELSE IF password[1] # "str"
     THEN AuthRespond(r, 500, "Failed to login", None, None)
     ELSE IF ~verifyPassword(password[2], user[2].password)
     THEN AuthRespond(r, 401, "Invalid email or password", None, None)
     ELSE LET ttl == LoginExpiry(jwtExpireIn, jwtRefreshExpireIn) IN
          AuthRespond(r, 200, "Login successful",
                      Session(user[2], SessionTokens(user[2], ttl, now, jwtSecret)),
                      <<"ttl", ttl>>)
  /\ UNCHANGED <<now, jwtSecret, jwtExpireIn, jwtRefreshExpireIn, libVars, callVars,
                 users, tasks, nextId, reqs>>

\* no register or login request, no lifetime configured
NoAuth ==
  /\ jwtExpireIn = Undefined
  /\ jwtRefreshExpireIn = Undefined
  /\ auths = [r \in Slots |-> AuthIdle]

\* an invocation of a library function: the function, its arguments, the
\* statement it has reached, the clock second it read (0 when it read none)
\* and its return value
CallIdle == [pc |-> "idle", fn |-> "", args |-> None, at |-> 0, result |-> None]

\* the locals of a function body: now, and the two consts that outlive a step
NoLocals == [t |-> 0, a |-> None, b |-> None]

NoCalls ==
  /\ calls = [c \in Slots |-> CallIdle]
  /\ frames = [c \in Slots |-> NoLocals]

\* no request and an empty database, for the specifications of the library
NoApi ==
  /\ users = {}
  /\ tasks = {}
  /\ nextId = 1
  /\ reqs = [r \in Slots |-> ReqIdle]
  /\ NoAuth
  /\ NoCalls

(***************************************************************************)
(* The token codec as a state machine: the process reads JWT_SECRET from   *)
(* its environment, the clock moves forward, createToken and verifyToken   *)
(* are called with inputs drawn from the sets below.                       *)
(***************************************************************************)
EnvSecrets == {"", "k1", "default-secret"}
ServerSecrets == {"", "k1"}

Claims(u) == Obj(<< <<"userId", Str(u)>>, <<"email", Str(u \o "@x.com")>> >>)

\* a caller-supplied payload that already carries iat and exp (JWTPayload
\* declares both as optional fields)
StaleClaims(u) == Obj(Put(Put(Claims(u)[2], "iat", Num(7)), "exp", Num(9)))

ClaimsSet == {Claims("u1"), StaleClaims("u2")}

\* lifetimes: positive, zero, negative, and the one that puts exp at second 0
TokenTtls == {0 - now} \cup ((0 - 1)..MaxTtl)

\* payload texts a third party may sign
ForgedTexts ==
  {JsonStringify(Obj(Put(Claims("u1")[2], "exp", Num(e)))) : e \in (0 - 1)..MaxClock}
  \cup {JsonStringify(Claims("u1")),
        JsonStringify(Obj(Put(Claims("u1")[2], "exp", Null))),
        JsonStringify(Num(5)), JsonStringify(Null), JsonStringify(Bool(FALSE)),
        JsonStringify(Str("x")), TBad}

ForgedToken(text, env) ==
  LET signatureInput == Base64Url(JsonStringify(Header)) \o <<Dot>> \o Base64Url(text)
  IN signatureInput \o <<Dot>> \o Hmac(Secret(env), signatureInput)

\* signed by a party that knows the server's secret
Forged == {ForgedToken(text, jwtSecret) : text \in ForgedTexts}

\* tokens created by a process whose environment holds env
IssuedUnder(env) ==
  {createToken(c, Num(MaxTtl), now, env) : c \in {Claims("u1"), Claims("u2")}}

OtherIssuers == UNION {IssuedUnder(env) : env \in EnvSecrets}

\* a token with one segment replaced
WithSegment(token, k, seg) ==
  LET p == Split(token, Dot)
      q == [p EXCEPT ![k] = seg]
  IN q[1] \o <<Dot>> \o q[2] \o <<Dot>> \o q[3]

Tampered(token) ==
  LET p == Split(token, Dot) IN
  {WithSegment(token, 1, Chars(<<"x">>)),
   WithSegment(token, 2, Base64Url(JsonStringify(Obj(Put(Claims("u1")[2], "exp", Num(MaxClock + MaxTtl + 1)))))),
   WithSegment(token, 3, Chars(<<"x">>)),
   WithSegment(token, 3, Hmac("k2", p[1] \o <<Dot>> \o p[2])),
   WithSegment(token, 3, Hmac(Secret(jwtSecret), p[2]))}

\* strings that do not have three segments
Malformed ==
  {<<>>, Chars(<<"a">>), Chars(<<"a", ".", "b">>), Chars(<<".">>),
   Chars(<<"a", ".", "b", ".", "c", ".", "d">>), Chars(<<".", ".", ".">>)}

\* a token with a segment added or removed
Resegmented(token) ==
  {token \o Chars(<<".", "x">>), token \o <<Dot>>, SubSeq(token, 1, 3),
   <<Dot>> \o token}

VerifyInputs ==
  Forged \cup OtherIssuers \cup Malformed
  \cup {Chars(<<"a", ".", "b", ".", "c">>), Chars(<<".", ".">>)}
  \cup (IF issued = None THEN {}
        ELSE {issued[2].token} \cup Tampered(issued[2].token)
               \cup Resegmented(issued[2].token))

InitToken ==
  /\ NoApi
  /\ now = 1
  /\ jwtSecret \in ServerSecrets
  /\ issued = None
  /\ lastV = None
  /\ lastX = None
  /\ lastH = None
  /\ lastP = None

\* Math.floor(Date.now() / 1000) only moves forward; lastV holds the call
\* made in the current second
Tick ==
  /\ now < MaxClock
  /\ now' = now + 1
  /\ lastV' = None
  /\ UNCHANGED <<jwtSecret, issued, lastX, lastH, lastP>>
  /\ UNCHANGED apiVars

CallCreateToken ==
  \E c \in ClaimsSet, ttl \in TokenTtls :
    /\ issued' = <<"issued", [claims |-> c, ttl |-> ttl, iat |-> now,
                              token |-> createToken(c, Num(ttl), now, jwtSecret)]>>
    /\ UNCHANGED <<now, jwtSecret, lastV, lastX, lastH, lastP>>
    /\ UNCHANGED apiVars

CallVerifyToken ==
  \E token \in VerifyInputs :
    /\ lastV' = <<"verified", [token |-> token, at |-> now,
                               result |-> verifyToken(token, now, jwtSecret)]>>
    /\ UNCHANGED <<now, jwtSecret, issued, lastX, lastH, lastP>>
    /\ UNCHANGED apiVars

NextToken == Tick \/ CallCreateToken \/ CallVerifyToken

SpecToken == InitToken /\ [][NextToken]_vars

(***************************************************************************)
(* Claims about the token codec, checked under SpecToken.                  *)
(***************************************************************************)
\* the call recorded in lastV verified the token the client was issued
VerifiedIssued ==
  /\ issued # None
  /\ lastV # None
  /\ lastV[2].token = issued[2].token

\* the three segments of a token are signed under the verifier's secret
WellSigned(token) ==
  LET p == Split(token, Dot) IN
  /\ Len(p) = 3
  /\ p[3] = Hmac(Secret(jwtSecret), p[1] \o <<Dot>> \o p[2])

\* C1: verifyToken of a token that createToken made from claims C with a
\* lifetime > 0, under the same secret and not past the expiry, returns an
\* object with C's userId and email and the injected iat and exp.
C1_RoundTrip ==
  (VerifiedIssued /\ issued[2].ttl > 0 /\ now <= issued[2].iat + issued[2].ttl)
    => LET r == lastV[2].result
           c == issued[2].claims
       IN /\ IsObj(r)
          /\ Get(r, "userId") = Get(c, "userId")
          /\ Get(r, "email") = Get(c, "email")
          /\ Get(r, "iat") = Num(issued[2].iat)
          /\ Get(r, "exp") = Num(issued[2].iat + issued[2].ttl)

\* C1 witness: the issued token is verified at the very second it expires,
\* after the clock has moved.
C1_Witness ==
  /\ VerifiedIssued
  /\ issued[2].ttl > 0
  /\ now = issued[2].iat + issued[2].ttl
  /\ IsObj(lastV[2].result)

\* C2: verifyToken returns null for every three-segment token whose third
\* segment is not the HMAC of the first two under the verifier's secret; this
\* covers the tokens created under another secret and the issued token with
\* its header, payload or signature segment changed.
C2_BadSignatureRejected ==
  lastV # None =>
    LET token == lastV[2].token IN
    /\ (Len(Split(token, Dot)) = 3 /\ ~WellSigned(token)) => lastV[2].result = Null
    /\ \A env \in EnvSecrets :
         (Secret(env) # Secret(jwtSecret) /\ token \in IssuedUnder(env))
           => lastV[2].result = Null
    /\ (issued # None /\ token \in Tampered(issued[2].token))
           => lastV[2].result = Null

\* C2 witness: an unexpired token created under another secret was rejected.
C2_Witness ==
  /\ lastV # None
  /\ \E env \in EnvSecrets :
       Secret(env) # Secret(jwtSecret) /\ lastV[2].token \in IssuedUnder(env)
  /\ lastV[2].result = Null

\* C3: a token created at second T with lifetime ttl is accepted at every
\* second from T through T + ttl and rejected at every later second.
C3_ExpiryWindow ==
  VerifiedIssued =>
    (lastV[2].result # Null <=> now <= issued[2].iat + issued[2].ttl)

\* C3 restricted to the tokens whose expiry is not second 0.
C3_ExpiryWindowNonZero ==
  (VerifiedIssued /\ issued[2].iat + issued[2].ttl # 0) =>
    (lastV[2].result # Null <=> now <= issued[2].iat + issued[2].ttl)

\* C4: verifyToken returns null for every correctly signed token whose
\* payload carries an integer exp smaller than the current second.
C4_ExpiredRejected ==
  lastV # None =>
    LET token == lastV[2].token
        payload == JsonParse(Base64UrlDecode(Split(token, Dot)[2]))
    IN (/\ WellSigned(token)
        /\ IsObj(payload)
        /\ IsNum(Get(payload, "exp"))
        /\ Get(payload, "exp")[2] < now)
         => lastV[2].result = Null

\* C5: verifyToken returns null, and throws nothing, for every string that
\* does not split on '.' into exactly three segments.
C5_WrongSegmentCount ==
  lastV # None =>
    (Len(Split(lastV[2].token, Dot)) # 3
       => lastV[2].result = Null /\ lastV[2].result # Throw)

\* C5 witness: a valid token followed by ".x" (four segments) was rejected.
C5_Witness ==
  /\ issued # None
  /\ lastV # None
  /\ lastV[2].token = issued[2].token \o Chars(<<".", "x">>)
  /\ verifyToken(issued[2].token, now, jwtSecret) # Null
  /\ lastV[2].result = Null

\* C6: verifyToken returns a decoded claims object or null, nothing else, and
\* lets no exception escape.
C6_NullOrClaims ==
  lastV # None =>
    /\ lastV[2].result # Throw
    /\ lastV[2].result = Null \/ IsObj(lastV[2].result)

\* C6, the part about exceptions alone.
C6_NeverThrows == lastV # None => lastV[2].result # Throw

(***************************************************************************)
(* extractToken applied to header values.                                  *)
(***************************************************************************)
Bearer == Chars(<<"B", "e", "a", "r", "e", "r">>)

Schemes ==
  {Bearer, Chars(<<"b", "e", "a", "r", "e", "r">>), Chars(<<"B", "E", "A", "R", "E", "R">>),
   Chars(<<"B", "a", "s", "i", "c">>), Bearer \o Chars(<<"x">>), <<>>}

Separators == {<<>>, <<Space>>, <<Space, Space>>}

HeaderTokens ==
  {<<>>, Chars(<<"a", "b", "c", ".", "d", "e", "f", ".", "g", "h", "i">>),
   Chars(<<"x", "y", "z">>), createToken(Claims("u1"), Num(MaxTtl), 1, "k1")}

Trailers == {<<>>, <<Space>>, <<Space>> \o Chars(<<"x">>)}

HeaderValues ==
  {Undefined} \cup
  {S(s \o sep \o t \o e) :
     s \in Schemes, sep \in Separators, t \in HeaderTokens, e \in Trailers}

InitHeader ==
  /\ NoApi
  /\ now = 1
  /\ jwtSecret = "k1"
  /\ issued = None
  /\ lastV = None
  /\ lastX = None
  /\ lastH = None
  /\ lastP = None

CallExtractToken ==
  \E h \in HeaderValues :
    /\ lastX' = <<"extracted", [header |-> h, result |-> extractToken(h)]>>
    /\ UNCHANGED <<now, jwtSecret, issued, lastV, lastH, lastP>>
    /\ UNCHANGED apiVars

NextHeader == CallExtractToken

SpecHeader == InitHeader /\ [][NextHeader]_vars

\* a header value of the form "Bearer <token>": the word, one space, and a
\* rest without a space
BearerForm(h) ==
  /\ h # Undefined
  /\ Len(h[2]) >= 7
  /\ SubSeq(h[2], 1, 6) = Bearer
  /\ h[2][7] = Space
  /\ \A i \in 8..Len(h[2]) : h[2][i] # Space

\* C7: extractToken returns the token substring of a value "Bearer <token>"
\* and null for every other value.
C7_ExtractToken ==
  lastX # None =>
    LET h == lastX[2].header IN
    IF BearerForm(h) THEN lastX[2].result = S(SubSeq(h[2], 8, Len(h[2])))
    ELSE lastX[2].result = Null

\* C7 witness: "Bearer abc.def.ghi" gave "abc.def.ghi".
C7_Witness ==
  /\ lastX # None
  /\ lastX[2].header =
       S(Bearer \o <<Space>> \o Chars(<<"a", "b", "c", ".", "d", "e", "f", ".", "g", "h", "i">>))
  /\ lastX[2].result = S(Chars(<<"a", "b", "c", ".", "d", "e", "f", ".", "g", "h", "i">>))

(***************************************************************************)
(* hashPassword and verifyPassword applied to passwords and stored strings.*)
(***************************************************************************)
Passwords == {"secret1", "secret2", "a:b", ""}
SaltBytes == {"r1", "r2"}

Hashes == {hashPassword(p, sb) : p \in Passwords, sb \in SaltBytes}

\* stored strings without ':', empty, or with segments that are not hex
MalformedStored ==
  {<<>>, Hex("r1"), Chars(<<"z", "z">>), Chars(<<"z", ":", "y">>),
   Hex("r1") \o <<Colon>>, Hex("r1") \o <<Colon>> \o Chars(<<"z">>),
   Hex(Pbkdf2("secret1", Hex("r1")))}

\* a stored string with a third piece after a valid pair
Extended == {hashPassword("secret1", "r1") \o <<Colon>> \o Chars(<<"z">>)}

StoredValues == Hashes \cup MalformedStored \cup Extended

InitPwd ==
  /\ NoApi
  /\ now = 1
  /\ jwtSecret = "k1"
  /\ issued = None
  /\ lastV = None
  /\ lastX = None
  /\ lastH = None
  /\ lastP = None

CallHashPassword ==
  \E p \in Passwords, sb \in SaltBytes :
    /\ lastH' = <<"hashed", [password |-> p, stored |-> hashPassword(p, sb)]>>
    /\ UNCHANGED <<now, jwtSecret, issued, lastV, lastX, lastP>>
    /\ UNCHANGED apiVars

CallVerifyPassword ==
  \E p \in Passwords, st \in StoredValues \cup (IF lastH = None THEN {} ELSE {lastH[2].stored}) :
    /\ lastP' = <<"checked", [password |-> p, stored |-> st, result |-> verifyPassword(p, st)]>>
    /\ UNCHANGED <<now, jwtSecret, issued, lastV, lastX, lastH>>
    /\ UNCHANGED apiVars

NextPwd == CallHashPassword \/ CallVerifyPassword

SpecPwd == InitPwd /\ [][NextPwd]_vars

\* C8: verifyPassword(P, hashPassword(P)) is true for every password and
\* every salt.
C8_HashThenVerify ==
  (lastH # None /\ lastP # None
     /\ lastP[2].stored = lastH[2].stored /\ lastP[2].password = lastH[2].password)
    => lastP[2].result = TRUE

\* C8 witness: a hash made by hashPassword was verified with its password.
C8_Witness ==
  /\ lastH # None
  /\ lastP # None
  /\ lastP[2].stored = lastH[2].stored
  /\ lastP[2].password = lastH[2].password
  /\ lastP[2].password = "a:b"
  /\ lastP[2].result = TRUE

ValidToken(u) == createToken(Claims(u), Num(MaxClock), 1, "k1")
ShortToken == createToken(Claims("u1"), Num(1), 1, "k1")

BearerOf(token) == S(Bearer \o <<Space>> \o token)

ApiHeaders ==
  {Null, S(Chars(<<"B", "a", "s", "i", "c">>) \o <<Space>> \o ValidToken("u1")),
   BearerOf(<<>>), BearerOf(Chars(<<"a", ".", "b">>)),
   BearerOf(ValidToken("u1")), BearerOf(ShortToken),
   BearerOf(createToken(Claims("u1"), Num(MaxClock), 1, "k2")),
   BearerOf(ForgedToken(JsonStringify(Bool(FALSE)), "k1")),
   BearerOf(ForgedToken(JsonStringify(Num(5)), "k1"))}

Methods == {"GET", "POST", "PATCH", "PUT", "DELETE"}

Title(s) == << <<"title", S(Chars(s))>> >>

PostBodies == {Obj(Title(<<"t">>)), Obj(Title(<<" ">>)), Throw}

PatchBodies == {Obj(<< <<"status", Str("COMPLETED")>> >>), Obj(<<>>)}

TaskIds == 1..MaxTasks

User(u) == [id |-> Str(u), email |-> Str(u \o "@x.com"),
            password |-> hashPassword("secret1", u)]

Init ==
  /\ now = 1
  /\ jwtSecret = "k1"
  /\ issued = None
  /\ lastV = None
  /\ lastX = None
  /\ lastH = None
  /\ lastP = None
  /\ users = {User("u1"), User("u2")}
  /\ tasks = {}
  /\ nextId = 1
  /\ reqs = [r \in Slots |-> ReqIdle]
  /\ NoAuth
  /\ NoCalls

Arrive == \E m \in Methods, h \in ApiHeaders : Receive("r1", m, h)
Guard == Authenticate("r1")
CreateTask == \E body \in PostBodies : PostCreate("r1", body)
CountTasks ==
  \E status \in {Null, Str("PENDING")} : GetCount("r1", Null, Num(1), status, Null)
ListTasks == GetList("r1")
FindTask == \E id \in TaskIds : PatchFind("r1", id)
UpdateTask == \E body \in PatchBodies : PatchUpdate("r1", body)
DeleteTask == \E id \in TaskIds : Delete("r1", id)

Next ==
  \/ Tick
  \/ Arrive
  \/ Guard
  \/ CreateTask
  \/ CountTasks
  \/ ListTasks
  \/ FindTask
  \/ UpdateTask
  \/ DeleteTask

Spec == Init /\ [][Next]_vars

\* an Authorization header of the form "Bearer <non-empty token>" whose
\* token verifyToken does not reject
GoodAuthorization(h) ==
  /\ h[1] = "s"
  /\ BearerForm(h)
  /\ Len(h[2]) >= 8
  /\ verifyToken(SubSeq(h[2], 8, Len(h[2])), now, jwtSecret) # Null

\* the steps of a handler that come after its guard
PastGuard == {"authed", "found", "counted"}

\* C10: a request without a good Authorization header is answered 401 by
\* the guard, which touches no task; every step that reads, creates, changes
\* or deletes a task is taken by a request whose token has been verified.
C10_GuardFirst ==
  [][\A r \in Slots :
       /\ (reqs[r].pc = "received" /\ reqs'[r] # reqs[r]
             /\ ~GoodAuthorization(reqs[r].header))
            => /\ reqs'[r].pc = "done"
               /\ reqs'[r].status = 401
               /\ reqs'[r].dbOps = 0
               /\ tasks' = tasks
       /\ (reqs'[r].dbOps > reqs[r].dbOps)
            => /\ reqs[r].pc \in PastGuard
               /\ Truthy(reqs[r].payload)
       /\ (tasks' # tasks)
            => \E q \in Slots : reqs[q].pc \in PastGuard /\ reqs'[q].dbOps > reqs[q].dbOps
    ]_vars

\* C10 witness: with a task stored, a DELETE carrying an expired or badly
\* signed token was answered 401.
C10_Witness ==
  /\ tasks # {}
  /\ reqs["r1"].pc = "done"
  /\ reqs["r1"].method = "DELETE"
  /\ reqs["r1"].status = 401
  /\ reqs["r1"].error = "Invalid or expired token"
  /\ reqs["r1"].dbOps = 0

(***************************************************************************)
(* Two users and a holder of a signed token without claims call every task *)
(* endpoint on every task.                                                 *)
(***************************************************************************)
IsolationHeaders ==
  {BearerOf(ValidToken("u1")), BearerOf(ValidToken("u2")),
   BearerOf(ForgedToken(JsonStringify(Num(5)), "k1"))}

IsolationArrive == \E m \in Methods, h \in IsolationHeaders : Receive("r1", m, h)

NextIsolation ==
  \/ IsolationArrive
  \/ Guard
  \/ CreateTask
  \/ CountTasks
  \/ ListTasks
  \/ FindTask
  \/ UpdateTask
  \/ DeleteTask

SpecIsolation == Init /\ [][NextIsolation]_vars

\* the userId the handlers read from the verified payload of request r
CallerId(r) == Get(reqs[r].payload, "userId")

\* C11: tasks are isolated per user: a GET lists only tasks whose userId is
\* the userId of the caller's verified token; a PATCH, PUT or DELETE reaches
\* or changes only tasks of that userId (on another user's task it answers
\* 404 and leaves it alone); a stored task never changes its userId.
C11_Isolation ==
  [][\A r \in Slots :
       /\ (reqs[r].pc = "counted" /\ reqs'[r].pc = "done" /\ reqs'[r].status = 200)
            => \A i \in 1..Len(reqs'[r].out[2].tasks) :
                 reqs'[r].out[2].tasks[i].userId = CallerId(r)
       /\ (reqs[r].pc = "authed" /\ reqs'[r].pc = "found")
            => \A t \in tasks : t.id = reqs'[r].id => t.userId = CallerId(r)
       /\ (reqs[r].pc \in {"authed", "found"} /\ reqs'[r] # reqs[r]
             /\ reqs[r].method \in {"PATCH", "PUT", "DELETE"})
            => /\ \A t \in tasks \ tasks' : t.userId = CallerId(r)
               /\ (reqs'[r].status = 200 /\ reqs'[r].out # None)
                    => reqs'[r].out[2].userId = CallerId(r)
       /\ \A t \in tasks, u \in tasks' : t.id = u.id => t.userId = u.userId
    ]_vars

\* the same isolation for the requests whose verified payload is an object
\* of claims with a userId, as login and register mint them
C11_IsolationOfUsers ==
  [][\A r \in Slots :
       (IsObj(reqs[r].payload) /\ CallerId(r) # Undefined) =>
         /\ (reqs[r].pc = "counted" /\ reqs'[r].pc = "done" /\ reqs'[r].status = 200)
              => \A i \in 1..Len(reqs'[r].out[2].tasks) :
                   reqs'[r].out[2].tasks[i].userId = CallerId(r)
         /\ (reqs[r].pc = "authed" /\ reqs'[r].pc = "found")
              => \A t \in tasks : t.id = reqs'[r].id => t.userId = CallerId(r)
         /\ (reqs[r].pc \in {"authed", "found"} /\ reqs'[r] # reqs[r]
               /\ reqs[r].method \in {"PATCH", "PUT", "DELETE"})
              => /\ \A t \in tasks \ tasks' : t.userId = CallerId(r)
                 /\ (reqs'[r].status = 200 /\ reqs'[r].out # None)
                      => reqs'[r].out[2].userId = CallerId(r)
    ]_vars

(***************************************************************************)
(* Sessions: a user logs in or registers and then calls the task endpoints *)
(* with either of the two tokens of the response, while the clock moves.   *)
(***************************************************************************)
Credentials(email, password) ==
  Obj(<< <<"email", Str(email)>>, <<"password", Str(password)>> >>)

\* the configured lifetimes of the sessions: both unset, or one second for
\* the access token and two for the refresh token
SessionLifetimes == {<<Undefined, Undefined>>, <<S(Chars(<<"1">>)), S(Chars(<<"2">>))>>}

SessionBodies == {<<"login", Credentials("u1@x.com", "secret1")>>,
                  <<"register", Credentials("u3@x.com", "secret3")>>}

InitSession ==
  /\ now = 1
  /\ jwtSecret = "k1"
  /\ issued = None
  /\ lastV = None
  /\ lastX = None
  /\ lastH = None
  /\ lastP = None
  /\ users = {User("u1"), User("u2")}
  /\ tasks = {}
  /\ nextId = 1
  /\ reqs = [r \in Slots |-> ReqIdle]
  /\ \E l \in SessionLifetimes : jwtExpireIn = l[1] /\ jwtRefreshExpireIn = l[2]
  /\ auths = [r \in Slots |-> AuthIdle]
  /\ NoCalls

\* one session in a behaviour: the login or registration is sent once
SessionOpen ==
  /\ auths["r1"].pc = "idle"
  /\ \E b \in SessionBodies : AuthReceive("r1", b[1], b[2])
SessionRegisterFind == RegisterFind("r1")
SessionRegisterCreate == RegisterCreate("r1", "r1", "a")
SessionLoginFind == LoginFind("r1")
SessionLoginAnswer == LoginAnswer("r1")

\* a task request carrying the access or the refresh token of the session
SessionArrive ==
  /\ auths["r1"].out # None
  /\ \E m \in {"POST", "DELETE"},
        token \in {auths["r1"].out[2].accessToken, auths["r1"].out[2].refreshToken} :
       Receive("r1", m, BearerOf(token))

SessionCreate == PostCreate("r1", Obj(Title(<<"t">>)))

NextSession ==
  \/ Tick
  \/ SessionOpen
  \/ SessionRegisterFind
  \/ SessionRegisterCreate
  \/ SessionLoginFind
  \/ SessionLoginAnswer
  \/ SessionArrive
  \/ Guard
  \/ SessionCreate
  \/ DeleteTask

SpecSession == InitSession /\ [][NextSession]_vars

\* the payload a token carries in its second segment
TokenPayload(token) == JsonParse(Base64UrlDecode(Split(token, Dot)[2]))

\* the names of the fields of an object, in order
Keys(v) == [i \in 1..Len(v[2]) |-> v[2][i][1]]

\* the expiry of the payload has not passed at second t
Unexpired(payload, t) == LET exp == Get(payload, "exp") IN IsNum(exp) => t <= exp[2]

Frame_Shared(c) == "r1"

\* the frame that holds the locals of invocation c: its own
Frame(c) == c

Invoke(c, fn, args) ==
  /\ calls[c].pc \in {"idle", "done"}
  /\ calls' = [calls EXCEPT ![c] = [CallIdle EXCEPT !.pc = "s1", !.fn = fn, !.args = args]]
  /\ frames' = [frames EXCEPT ![Frame(c)] = NoLocals]
  /\ UNCHANGED <<now, jwtSecret, libVars, users, tasks, nextId, reqs, authVars>>

Return(c, result, at) ==
  calls' = [calls EXCEPT ![c].pc = "done", ![c].result = result, ![c].at = at]

\* hashPassword(password): salt, then hash and the return
HashPasswordStep(c) ==
  /\ calls[c].fn = "hashPassword"
  /\ LET password == calls[c].args[2][2]
         saltBytes == calls[c].args[3][2]
         salt == frames[Frame(c)].a
     IN \/ /\ calls[c].pc = "s1"
           /\ frames' = [frames EXCEPT ![Frame(c)].a = S(Hex(saltBytes))]
           /\ calls' = [calls EXCEPT ![c].pc = "s2"]
        \/ /\ calls[c].pc = "s2"
           /\ Return(c, S(salt[2] \o <<Colon>> \o Hex(Pbkdf2(password, salt[2]))), 0)
           /\ UNCHANGED frames
  /\ UNCHANGED <<now, jwtSecret, libVars, users, tasks, nextId, reqs, authVars>>

\* verifyPassword(password, hash): the split, then computedHash and the
\* comparison
VerifyPasswordStep(c) ==
  /\ calls[c].fn = "verifyPassword"
  /\ LET password == calls[c].args[2][2]
         hash == calls[c].args[3][2]
         parts == frames[Frame(c)].a[2]
     IN \/ /\ calls[c].pc = "s1"
           /\ frames' = [frames EXCEPT ![Frame(c)].a = <<"parts", Split(hash, Colon)>>]
           /\ calls' = [calls EXCEPT ![c].pc = "s2"]
        \/ /\ calls[c].pc = "s2"
           /\ Return(c, Bool(S(Hex(Pbkdf2(password, parts[1])))
                               = (IF Len(parts) >= 2 THEN S(parts[2]) ELSE Undefined)), 0)
           /\ UNCHANGED frames
  /\ UNCHANGED <<now, jwtSecret, libVars, users, tasks, nextId, reqs, authVars>>

\* createToken(payload, expiresIn): now and tokenPayload, then the two
\* encoded segments and signatureInput, then the signature and the return
CreateTokenStep(c) ==
  /\ calls[c].fn = "createToken"
  /\ LET payload == calls[c].args[2]
         expiresIn == calls[c].args[3]
         l == frames[Frame(c)]
     IN \/ /\ calls[c].pc = "s1"
           /\ frames' = [frames EXCEPT
                           ![Frame(c)].t = now,
                           ![Frame(c)].a = Obj(Put(Put(payload[2], "iat", Num(now)),
                                                   "exp", NumAdd(Num(now), expiresIn)))]
           /\ calls' = [calls EXCEPT ![c].pc = "s2", ![c].at = now]
        \/ /\ calls[c].pc = "s2"
           /\ frames' = [frames EXCEPT
                           ![Frame(c)].b = S(Base64Url(JsonStringify(Header)) \o <<Dot>>
                                             \o Base64Url(JsonStringify(l.a)))]
           /\ calls' = [calls EXCEPT ![c].pc = "s3"]
        \/ /\ calls[c].pc = "s3"
           /\ Return(c, S(l.b[2] \o <<Dot>> \o Hmac(Secret(jwtSecret), l.b[2])), calls[c].at)
           /\ UNCHANGED frames
  /\ UNCHANGED <<now, jwtSecret, libVars, users, tasks, nextId, reqs, authVars>>

\* verifyToken(token): the split and the count of the parts, then the
\* signature comparison, then the payload, now and the expiry check
VerifyTokenStep(c) ==
  /\ calls[c].fn = "verifyToken"
  /\ LET token == calls[c].args[2][2]
         parts == frames[Frame(c)].a[2]
     IN \/ /\ calls[c].pc = "s1"
           /\ frames' = [frames EXCEPT ![Frame(c)].a = <<"parts", Split(token, Dot)>>]
           /\ IF Len(Split(token, Dot)) # 3
              THEN Return(c, Null, 0)
              ELSE calls' = [calls EXCEPT ![c].pc = "s2"]
        \/ /\ calls[c].pc = "s2"
           /\ IF Hmac(Secret(jwtSecret), parts[1] \o <<Dot>> \o parts[2]) # parts[3]
              THEN Return(c, Null, 0)
              ELSE calls' = [calls EXCEPT ![c].pc = "s3"]
           /\ UNCHANGED frames
        \/ /\ calls[c].pc = "s3"
           /\ frames' = [frames EXCEPT ![Frame(c)].t = now]
           /\ LET r == CheckedPayload(parts[2], now) IN
              Return(c, IF r = Throw THEN Null ELSE r, now)
  /\ UNCHANGED <<now, jwtSecret, libVars, users, tasks, nextId, reqs, authVars>>

\* extractToken(authHeader): the test of the header, then the split and
\* the test of the parts
ExtractTokenStep(c) ==
  /\ calls[c].fn = "extractToken"
  /\ LET authHeader == calls[c].args[2]
         parts == frames[Frame(c)].a[2]
     IN \/ /\ calls[c].pc = "s1"
           /\ IF ~Truthy(authHeader)
              THEN Return(c, Null, 0) /\ UNCHANGED frames
              ELSE /\ frames' = [frames EXCEPT
                                   ![Frame(c)].a = <<"parts", Split(authHeader[2], Space)>>]
                   /\ calls' = [calls EXCEPT ![c].pc = "s2"]
        \/ /\ calls[c].pc = "s2"
           /\ Return(c, IF Len(parts) = 2 /\ parts[1] = Chars(<<"B", "e", "a", "r", "e", "r">>)
                        THEN S(parts[2]) ELSE Null, 0)
           /\ UNCHANGED frames
  /\ UNCHANGED <<now, jwtSecret, libVars, users, tasks, nextId, reqs, authVars>>

\* the calls the requests make
CallInputs ==
  {<<"hashPassword", <<"args", Str("secret1"), Str("r1")>> >>,
   <<"verifyPassword", <<"args", Str("secret1"), S(hashPassword("secret1", "r1"))>> >>,
   <<"verifyPassword", <<"args", Str("secret2"), S(hashPassword("secret1", "r1"))>> >>,
   <<"verifyPassword", <<"args", Str("secret1"), S(Hex("r1"))>> >>,
   <<"createToken", <<"args", Claims("u1"), Num(1)>> >>,
   <<"createToken", <<"args", StaleClaims("u2"), Num(MaxTtl)>> >>,
   <<"verifyToken", <<"args", S(ShortToken)>> >>,
   <<"verifyToken", <<"args", S(createToken(Claims("u1"), Num(MaxClock), 1, "k2"))>> >>,
   <<"verifyToken", <<"args", S(Chars(<<"a", ".", "b">>))>> >>,
   <<"extractToken", <<"args", BearerOf(ShortToken)>> >>,
   <<"extractToken", <<"args", S(Bearer)>> >>,
   <<"extractToken", <<"args", Undefined>> >>}

InitCalls ==
  /\ NoApi
  /\ now = 1
  /\ jwtSecret = "k1"
  /\ issued = None
  /\ lastV = None
  /\ lastX = None
  /\ lastH = None
  /\ lastP = None

CallAny == \E c \in Slots, i \in CallInputs : Invoke(c, i[1], i[2])
StepHashPassword == \E c \in Slots : HashPasswordStep(c)
StepVerifyPassword == \E c \in Slots : VerifyPasswordStep(c)
StepCreateToken == \E c \in Slots : CreateTokenStep(c)
StepVerifyToken == \E c \in Slots : VerifyTokenStep(c)
StepExtractToken == \E c \in Slots : ExtractTokenStep(c)

NextCalls ==
  \/ Tick
  \/ CallAny
  \/ StepHashPassword
  \/ StepVerifyPassword
  \/ StepCreateToken
  \/ StepVerifyToken
  \/ StepExtractToken

SpecCalls == InitCalls /\ [][NextCalls]_vars

\* what the finished invocation c returns when it runs alone with the same
\* arguments, secret and clock second
AloneResult(c) ==
  LET a == calls[c].args
      t == calls[c].at
  IN CASE calls[c].fn = "hashPassword" -> S(hashPassword(a[2][2], a[3][2]))
       [] calls[c].fn = "verifyPassword" -> Bool(verifyPassword(a[2][2], a[3][2]))
       [] calls[c].fn = "createToken" -> S(createToken(a[2], a[3], t, jwtSecret))
       [] calls[c].fn = "verifyToken" -> verifyToken(a[2][2], IF t = 0 THEN now ELSE t, jwtSecret)
       [] OTHER -> extractToken(a[2])

\* C13: the five functions share no mutable state: a step of one invocation
\* changes only that invocation and its own locals, never the secret, the
\* clock or another invocation's locals, and under every interleaving a
\* finished invocation has returned what it returns when run alone with the
\* same arguments, secret and clock second.
C13_NoSharedState ==
  /\ [][\A c \in Slots :
          calls'[c] # calls[c] =>
            /\ jwtSecret' = jwtSecret
            /\ now' = now
            /\ UNCHANGED <<users, tasks, nextId, reqs, authVars>>
            /\ \A d \in Slots \ {c} : calls'[d] = calls[d] /\ frames'[d] = frames[d]
       ]_vars
  /\ [](\A c \in Slots : calls[c].pc = "done" => calls[c].result = AloneResult(c))

\* C13 witness: two invocations ran interleaved and both have returned, a
\* createToken that read the clock before a tick and a verifyToken that
\* found its token expired after it.
C13_Witness ==
  /\ calls["r1"].pc = "done"
  /\ calls["r1"].fn = "createToken"
  /\ calls["r1"].at < now
  /\ calls["r2"].pc = "done"
  /\ calls["r2"].fn = "verifyToken"
  /\ calls["r2"].at = now
  /\ calls["r2"].args[2] = S(ShortToken)
  /\ calls["r2"].result = Null
  /\ frames["r1"].t < frames["r2"].t

(***************************************************************************)
(* The configured lifetimes: JWT_EXPIRE_IN and JWT_REFRESH_EXPIRE_IN are   *)
(* set once in the environment, and logins and registrations mint tokens.  *)
(***************************************************************************)
Text(s) == S(Chars(s))

ExpireInValues ==
  {Undefined, Text(<<"1", "5", "m">>), Text(<<"9", "0", "0">>), Text(<<"1", "h">>),
   Text(<<"3", "0", "s">>)}

RefreshExpireInValues ==
  {Undefined, Text(<<"7", "d">>), Text(<<"6", "0", "4", "8", "0", "0">>),
   Text(<<"1", "2", "h">>), Text(<<"3", "0", "m">>)}

InitLifetimes ==
  /\ now = 1
  /\ jwtSecret = "k1"
  /\ issued = None
  /\ lastV = None
  /\ lastX = None
  /\ lastH = None
  /\ lastP = None
  /\ users = {User("u1"), User("u2")}
  /\ tasks = {}
  /\ nextId = 1
  /\ reqs = [r \in Slots |-> ReqIdle]
  /\ jwtExpireIn \in ExpireInValues
  /\ jwtRefreshExpireIn \in RefreshExpireInValues
  /\ auths = [r \in Slots |-> AuthIdle]
  /\ NoCalls

NextLifetimes ==
  \/ Tick
  \/ SessionOpen
  \/ SessionRegisterFind
  \/ SessionRegisterCreate
  \/ SessionLoginFind
  \/ SessionLoginAnswer

SpecLifetimes == InitLifetimes /\ [][NextLifetimes]_vars

\* the seconds in one unit of a duration text
UnitSeconds(sym) ==
  CASE sym = Ch("m") -> 60
    [] sym = Ch("h") -> 3600
    [] sym = Ch("d") -> 86400
    [] OTHER -> 1

\* a duration text: digits, followed or not by one of the units s, m, h, d
IsDuration(s) ==
  /\ s # <<>>
  /\ IsDigit(Head(s))
  /\ \A i \in 1..(Len(s) - 1) : IsDigit(s[i])
  /\ IsDigit(s[Len(s)]) \/ s[Len(s)] \in {Ch("s"), Ch("m"), Ch("h"), Ch("d")}

\* the number of seconds a configured value denotes; fallback when unset
Denotes(v, fallback) ==
  IF v = Undefined THEN Num(fallback)
  ELSE Num(LeadingDigits(v[2], 0) * UnitSeconds(v[2][Len(v[2])]))

\* C14: the lifetimes login and register pass to createToken are the
\* seconds the configured durations denote (900 and 604800 when unset), and
\* both handlers compute the same lifetimes from the same configuration.
C14_Lifetimes ==
  \A r \in Slots : auths[r].ttl # None =>
    /\ auths[r].ttl[2] = RegisterExpiry(jwtExpireIn, jwtRefreshExpireIn)
    /\ auths[r].ttl[2] = LoginExpiry(jwtExpireIn, jwtRefreshExpireIn)
    /\ (jwtExpireIn = Undefined \/ IsDuration(jwtExpireIn[2]))
         => auths[r].ttl[2].access = Denotes(jwtExpireIn, 900)
    /\ (jwtRefreshExpireIn = Undefined \/ IsDuration(jwtRefreshExpireIn[2]))
         => auths[r].ttl[2].refresh = Denotes(jwtRefreshExpireIn, 604800)

\* the values the handlers convert as the claim says: unset, bare seconds,
\* minutes for the access token, days for the refresh token
Convertible(v, unit) ==
  \/ v = Undefined
  \/ IsDuration(v[2]) /\ (IsDigit(v[2][Len(v[2])]) \/ v[2][Len(v[2])] \in {Ch("s"), Ch(unit)})

\* the lifetimes of the values the handlers do convert
C14_LifetimesConverted ==
  \A r \in Slots : auths[r].ttl # None =>
    /\ auths[r].ttl[2] = RegisterExpiry(jwtExpireIn, jwtRefreshExpireIn)
    /\ auths[r].ttl[2] = LoginExpiry(jwtExpireIn, jwtRefreshExpireIn)
    /\ Convertible(jwtExpireIn, "m") => auths[r].ttl[2].access = Denotes(jwtExpireIn, 900)
    /\ Convertible(jwtRefreshExpireIn, "d")
         => auths[r].ttl[2].refresh = Denotes(jwtRefreshExpireIn, 604800)

\* C15: the payload of a created token has iat equal to the clock second of
\* the call and exp equal to iat + ttl, so exp - iat = ttl, whatever iat or
\* exp the caller's claims carried; the other claims are kept.
C15_IssuedAtAndExpiry ==
  issued # None =>
    LET payload == TokenPayload(issued[2].token) IN
    /\ Get(payload, "iat") = Num(issued[2].iat)
    /\ Get(payload, "exp") = Num(issued[2].iat + issued[2].ttl)
    /\ Get(payload, "exp")[2] - Get(payload, "iat")[2] = issued[2].ttl
    /\ \A k \in {"userId", "email"} : Get(payload, k) = Get(issued[2].claims, k)

\* C15 witness: a token created from claims that carried their own iat and
\* exp, later than the first second, with a lifetime that is not their
\* difference.
C15_Witness ==
  /\ issued # None
  /\ Get(issued[2].claims, "iat") = Num(7)
  /\ Get(issued[2].claims, "exp") = Num(9)
  /\ issued[2].iat = 2
  /\ issued[2].ttl = 1
  /\ Get(TokenPayload(issued[2].token), "exp") = Num(3)

\* a segment decoded, parsed, written again and encoded again
Reencoded(seg) == Base64Url(JsonStringify(JsonParse(Base64UrlDecode(seg))))

CreateHeaders ==
  {Null, BearerOf(ValidToken("u1")), BearerOf(ValidToken("u2")),
   BearerOf(ForgedToken(JsonStringify(Num(5)), "k1"))}

CreateBodies ==
  {Obj(Title(<<"t">>)), Obj(Title(<<" ", "t", " ">>)),
   Obj(Put(Title(<<"T">>), "description", S(Chars(<<"d">>)))),
   Obj(Put(Title(<<"t">>), "description", S(<<>>))),
   Obj(Title(<<" ", " ">>)), Obj(Title(<<>>)), Obj(<<>>),
   Obj(<< <<"title", Null>> >>), Obj(<< <<"description", S(Chars(<<"d">>))>> >>)}

CreateArrive == \E h \in CreateHeaders : Receive("r1", "POST", h)
CreateAny == \E body \in CreateBodies : PostCreate("r1", body)

NextCreate ==
  \/ CreateArrive
  \/ Guard
  \/ CreateAny

SpecCreate == Init /\ [][NextCreate]_vars

\* a title that is a string with something other than blanks in it
NonBlank(title) == title[1] = "s" /\ Trim(title[2]) # <<>>

\* what a POST that has passed the guard does with the body
CreateEffect(r, body) ==
  IF NonBlank(Get(body, "title"))
  THEN /\ reqs'[r].status = 201
       /\ \E t \in tasks' :
            /\ \A old \in tasks : old.id # t.id
            /\ tasks' = tasks \cup {t}
            /\ t.userId = CallerId(r)
            /\ t.status = "PENDING"
            /\ t.title = Get(body, "title")[2]
  ELSE /\ reqs'[r].status = 400
       /\ reqs'[r].error = "Task title is required"
       /\ tasks' = tasks

\* C17: an authenticated POST with a non-blank title adds exactly one task,
\* owned by the userId of the token and PENDING, and changes no existing
\* task; with a missing, empty or blank title it answers 400 'Task title is
\* required' and leaves the tasks as they were.
C17_CreateEffect ==
  [][\A r \in Slots, body \in CreateBodies :
       PostCreate(r, body) => CreateEffect(r, body)
    ]_vars

\* the same for the requests whose verified payload is a claims object with
\* a userId
C17_CreateEffectOfUsers ==
  [][\A r \in Slots, body \in CreateBodies :
       (PostCreate(r, body) /\ IsObj(reqs[r].payload) /\ CallerId(r) # Undefined)
         => CreateEffect(r, body)
    ]_vars

(***************************************************************************)
(* Updating tasks: each user has created one task, and PATCH and PUT       *)
(* requests arrive with the bodies a client can send, while the clock      *)
(* moves.                                                                  *)
(***************************************************************************)
StoredTask(id, u, description) ==
  [id |-> id, userId |-> Str(u), title |-> Chars(<<"t">>), description |-> description,
   status |-> "PENDING", updatedAt |-> 1]

UpdateHeaders == {BearerOf(ValidToken("u1")), BearerOf(ValidToken("u2"))}

UpdateBodies ==
  {Obj(Title(<<"n">>)),
   Obj(<< <<"description", S(Chars(<<"e">>))>> >>),
   Obj(<< <<"description", S(<<>>)>> >>),
   Obj(<< <<"description", Null>> >>),
   Obj(<< <<"status", Str("COMPLETED")>> >>),
   Obj(<< <<"status", Str("PENDING")>> >>),
   Obj(<< <<"status", Str("DONE")>> >>),
   Obj(Put(Title(<<"n">>), "status", Str("COMPLETED"))),
   Obj(<< <<"title", Null>> >>),
   Obj(<< <<"status", Str("COMPLETED")>>, <<"userId", Str("u2")>>, <<"id", Num(2)>> >>),
   Obj(<< <<"userId", Str("u2")>> >>),
   Obj(<<>>)}

InitUpdate ==
  /\ now = 1
  /\ jwtSecret = "k1"
  /\ issued = None
  /\ lastV = None
  /\ lastX = None
  /\ lastH = None
  /\ lastP = None
  /\ users = {User("u1"), User("u2")}
  /\ tasks = {StoredTask(1, "u1", S(Chars(<<"d">>))), StoredTask(2, "u2", Null)}
  /\ nextId = 3
  /\ reqs = [r \in Slots |-> ReqIdle]
  /\ NoAuth
  /\ NoCalls

UpdateArrive == \E m \in {"PATCH", "PUT"}, h \in UpdateHeaders : Receive("r1", m, h)
UpdateAny == \E body \in UpdateBodies : PatchUpdate("r1", body)

NextUpdate ==
  \/ Tick
  \/ UpdateArrive
  \/ Guard
  \/ FindTask
  \/ UpdateAny

SpecUpdate == InitUpdate /\ [][NextUpdate]_vars

Updatable == {"title", "description", "status"}

\* the body carries field k
Present(body, k) == Get(body, k) # Undefined

\* the fields of the row that the body does not carry are the same in the
\* two versions of a task, and so are its id and userId
SameButPresent(old, new, body) ==
  /\ new.id = old.id
  /\ new.userId = old.userId
  /\ ~Present(body, "title") => new.title = old.title
  /\ ~Present(body, "description") => new.description = old.description
  /\ ~Present(body, "status") => new.status = old.status

\* the request in slot r is a PATCH or PUT on a task of its caller, past
\* findFirst
OwnTaskFound(r) ==
  /\ reqs[r].pc = "found"
  /\ \E t \in tasks : t.id = reqs[r].id /\ t.userId = CallerId(r)

\* C18 as stated: a PATCH or PUT on a task of the caller changes nothing of
\* the stored tasks but the fields among title, description and status that
\* the body carries; a body with none of them answers 400 'No fields to
\* update' and changes nothing.
C18_OnlyPresentFields ==
  [][\A r \in Slots, body \in UpdateBodies :
       (OwnTaskFound(r) /\ PatchUpdate(r, body)) =>
         IF \A k \in Updatable : ~Present(body, k)
         THEN /\ reqs'[r].status = 400
              /\ reqs'[r].error = "No fields to update"
              /\ tasks' = tasks
         ELSE /\ \A t \in tasks : t.id # reqs[r].id => t \in tasks'
              /\ \A n \in tasks' : \E t \in tasks :
                   /\ SameButPresent(t, n, body)
                   /\ n.updatedAt = t.updatedAt
    ]_vars

\* C18: a PATCH or PUT on a task of the caller changes, of that task, only
\* the fields among title, description and status that the body carries and
\* the updated_at that the database trigger sets to the time of the write;
\* id, userId, the fields the body does not carry and every other task stay
\* as they were; a body with none of the three fields answers 400 'No
\* fields to update' and changes nothing.
C18_UpdateEffect ==
  [][\A r \in Slots, body \in UpdateBodies :
       (OwnTaskFound(r) /\ PatchUpdate(r, body)) =>
         IF \A k \in Updatable : ~Present(body, k)
         THEN /\ reqs'[r].status = 400
              /\ reqs'[r].error = "No fields to update"
              /\ tasks' = tasks
         ELSE /\ \A t \in tasks : t.id # reqs[r].id => t \in tasks'
              /\ \A n \in tasks' : \E t \in tasks :
                   /\ SameButPresent(t, n, body)
                   /\ n.updatedAt = t.updatedAt \/ (n.id = reqs[r].id /\ n.updatedAt = now)
              /\ reqs'[r].status = 200 =>
                   /\ reqs'[r].out[2] \in tasks'
                   /\ reqs'[r].out[2].id = reqs[r].id
                   /\ reqs'[r].out[2].updatedAt = now
    ]_vars

\* C18 witness: a PUT of user u1 with only a title, answered 200 in a later
\* second than the task was created: the title and updated_at are new, the
\* description and status are the old ones, the other user's task is as it
\* was.
C18_Witness ==
  /\ reqs["r1"].pc = "done"
  /\ reqs["r1"].method = "PUT"
  /\ reqs["r1"].status = 200
  /\ reqs["r1"].out[2] = [StoredTask(1, "u1", S(Chars(<<"d">>))) EXCEPT
                            !.title = Chars(<<"n">>), !.updatedAt = 2]
  /\ reqs["r1"].out[2] \in tasks
  /\ StoredTask(2, "u2", Null) \in tasks

(***************************************************************************)
(* Registrations in two slots at once: the steps of the two requests       *)
(* interleave between prisma.user.findUnique and prisma.user.create.       *)
(***************************************************************************)
RegisterBodies ==
  {Credentials("u3@x.com", "secret3"), Credentials("u3@x.com", "secret4"),
   Credentials("u1@x.com", "secret1"), Credentials("u3@x.com", "short")}

RandomSuffixes == {"a", "b"}

RegisterArrive == \E r \in Slots, body \in RegisterBodies : AuthReceive(r, "register", body)
RegisterCheck == \E r \in Slots : RegisterFind(r)
RegisterInsert == \E r \in Slots, random \in RandomSuffixes : RegisterCreate(r, "r1", random)

NextRegister ==
  \/ RegisterArrive
  \/ RegisterCheck
  \/ RegisterInsert

SpecRegister == Init /\ [][NextRegister]_vars

\* a body that passes register's validation
ValidRegistration(body) ==
  /\ Truthy(Get(body, "email"))
  /\ Truthy(Get(body, "password"))
  /\ Len(Get(body, "password")[2]) >= 6

\* C19: in every reachable state no two users share an email, and a step
\* that ends a valid register request for an email that belongs to a stored
\* user creates no user and answers 409 'User already exists', also when
\* another register request for the same email created the user between
\* this request's existence check and its create.
C19_RegisterExisting ==
  /\ [](\A u \in users, v \in users : u.email = v.email => u = v)
  /\ [][\A r \in Slots :
          (/\ auths[r].kind = "register"
           /\ auths[r].pc \in {"received", "checked"}
           /\ auths'[r].pc = "done"
           /\ ValidRegistration(auths[r].body)
           /\ \E u \in users : u.email = Get(auths[r].body, "email"))
            => /\ users' = users
               /\ auths'[r].status = 409
               /\ auths'[r].error = "User already exists"
       ]_vars

\* what holds of the claim under every interleaving: emails stay unique, a
\* register request for a stored email creates no user, and it is answered
\* 409 when the user was stored before the request's existence check
C19_NoSecondUser ==
  /\ [](\A u \in users, v \in users : u.email = v.email => u = v)
  /\ [][\A r \in Slots :
          (/\ auths[r].kind = "register"
           /\ auths[r].pc \in {"received", "checked"}
           /\ auths'[r].pc = "done"
           /\ ValidRegistration(auths[r].body)
           /\ \E u \in users : u.email = Get(auths[r].body, "email"))
            => /\ users' = users
               /\ auths[r].pc = "received" =>
                    /\ auths'[r].status = 409
                    /\ auths'[r].error = "User already exists"
               /\ auths[r].pc = "checked" =>
                    /\ auths'[r].status = 500
                    /\ auths'[r].error = "Failed to register user"
       ]_vars

(***************************************************************************)
(* Logins in one slot while a new user registers in the other.             *)
(***************************************************************************)
LoginBodies ==
  {Credentials("u1@x.com", "secret1"), Credentials("u1@x.com", "secret3"),
   Credentials("u3@x.com", "secret3"), Credentials("u3@x.com", "secret1"),
   Credentials("u9@x.com", "secret1"),
   Obj(<< <<"email", Str("u1@x.com")>> >>), Throw}

LoginArrive == \E body \in LoginBodies : AuthReceive("r1", "login", body)
LoginLookup == LoginFind("r1")
LoginReply == LoginAnswer("r1")
NewUserArrive == AuthReceive("r2", "register", Credentials("u3@x.com", "secret3"))
NewUserCheck == RegisterFind("r2")
NewUserInsert == \E saltBytes \in SaltBytes : RegisterCreate("r2", saltBytes, "a")

NextLogin ==
  \/ LoginArrive
  \/ LoginLookup
  \/ LoginReply
  \/ NewUserArrive
  \/ NewUserCheck
  \/ NewUserInsert

SpecLogin == Init /\ [][NextLogin]_vars

\* a body with an email and a password, both texts
HasCredentials(body) ==
  /\ body # Throw
  /\ Truthy(Get(body, "email")) /\ Get(body, "email")[1] = "str"
  /\ Truthy(Get(body, "password")) /\ Get(body, "password")[1] = "str"

\* a stored user has the email of the body and verifyPassword accepts the
\* password of the body against that user's stored hash
Accepted(body, u) ==
  /\ u.email = Get(body, "email")
  /\ verifyPassword(Get(body, "password")[2], u.password)

\* C20: no step of a login request changes the stored users; a login that
\* returns tokens answers a body whose email is that of a stored user whose
\* hash verifyPassword accepts for the body's password, and both tokens
\* carry that user's id and email; a login with an unknown email and a
\* login with a wrong password are both answered 401 'Invalid email or
\* password' without tokens.
C20_Login ==
  [][\A r \in Slots :
       (auths[r].kind = "login" /\ auths'[r] # auths[r] /\ auths[r].pc # "done") =>
         /\ users' = users
         /\ (auths'[r].pc = "done" /\ auths'[r].out # None) =>
              /\ auths'[r].status = 200
              /\ HasCredentials(auths[r].body)
              /\ \E u \in users :
                   /\ Accepted(auths[r].body, u)
                   /\ auths'[r].out[2].user = [id |-> u.id, email |-> u.email]
                   /\ \A token \in {auths'[r].out[2].accessToken,
                                    auths'[r].out[2].refreshToken} :
                        /\ verifyToken(token, now, jwtSecret) = TokenPayload(token)
                        /\ Get(TokenPayload(token), "userId") = u.id
                        /\ Get(TokenPayload(token), "email") = u.email
         /\ (auths'[r].pc = "done" /\ HasCredentials(auths[r].body)
               /\ ~\E u \in users : Accepted(auths[r].body, u)) =>
              /\ auths'[r].status = 401
              /\ auths'[r].error = "Invalid email or password"
              /\ auths'[r].out = None
    ]_vars

\* C20 witness: a user registered, then logged in with the registered
\* password and got tokens carrying the new id, after which a login with
\* another password for the same email is about to be answered.
C20_Witness ==
  /\ auths["r2"].status = 201
  /\ auths["r1"].kind = "login"
  /\ auths["r1"].status = 200
  /\ auths["r1"].out # None
  /\ auths["r1"].out[2].user.email = Str("u3@x.com")
  /\ auths["r1"].out[2].user.id = auths["r2"].out[2].user.id
  /\ Get(TokenPayload(auths["r1"].out[2].refreshToken), "userId")
       = auths["r2"].out[2].user.id

\* C20 second case reached: a wrong password for a stored email and an
\* unknown email have been answered.
C20_Rejected ==
  /\ auths["r1"].pc = "done"
  /\ auths["r1"].status = 401
  /\ \E u \in users : u.email = Get(auths["r1"].body, "email")

(***************************************************************************)
(* Listing tasks: a user with three stored tasks sends GET requests with   *)
(* integer page and limit query values, or without them.                   *)
(***************************************************************************)
PageValues == {Null, Num(0 - 1), Num(0), Num(1), Num(2), Num(3)}
LimitValues == {Null, Num(0 - 1), Num(0), Num(1), Num(2), Num(100), Num(101)}
StatusValues == {Null, Str("PENDING"), Str("COMPLETED"), Str("DONE")}
SearchValues == {Null, S(Chars(<<"t">>)), S(Chars(<<"n">>)), S(<<Space>>)}

InitList ==
  /\ now = 1
  /\ jwtSecret = "k1"
  /\ issued = None
  /\ lastV = None
  /\ lastX = None
  /\ lastH = None
  /\ lastP = None
  /\ users = {User("u1"), User("u2")}
  /\ tasks = {StoredTask(1, "u1", Null),
              [StoredTask(2, "u1", Null) EXCEPT !.status = "COMPLETED"],
              StoredTask(3, "u1", Null), StoredTask(4, "u2", Null)}
  /\ nextId = 5
  /\ reqs = [r \in Slots |-> ReqIdle]
  /\ NoAuth
  /\ NoCalls

ListArrive == Receive("r1", "GET", BearerOf(ValidToken("u1")))
ListCount ==
  \E pageParam \in PageValues, limitParam \in LimitValues,
     status \in StatusValues, search \in SearchValues :
    GetCount("r1", pageParam, limitParam, status, search)

NextList ==
  \/ ListArrive
  \/ Guard
  \/ ListCount
  \/ ListTasks

SpecList == InitList /\ [][NextList]_vars

\* the ceiling of a / b for a >= 0 and b >= 1
Ceiling(a, b) == CHOOSE n \in 0..a : n * b >= a /\ (n - 1) * b < a

\* the answer of a GET is a page as the claim describes it: q is the query
\* the handler built, caller the user of the token
PageAnswer(q, caller, status, out) ==
  /\ status = 200
  /\ out # None
  /\ out[2].page[2] >= 1
  /\ out[2].limit[2] >= 1
  /\ out[2].limit[2] <= 100
  /\ Len(out[2].tasks) <= out[2].limit[2]
  /\ (out[2].page[2] - 1) * out[2].limit[2] >= 0
  /\ out[2].total = Cardinality({t \in tasks : t.userId = caller /\ Matches(t, q.where)})
  /\ out[2].totalPages = Num(Ceiling(out[2].total, out[2].limit[2]))

\* C21: for every integer page and limit query value, GET /api/tasks
\* answers with page >= 1, 1 <= limit <= 100, at most limit tasks, a skip
\* offset (page-1)*limit >= 0 and totalPages the ceiling of total/limit,
\* total being the number of the caller's tasks that match the filter.
C21_Pagination ==
  [][\A r \in Slots :
       (reqs[r].pc = "counted" /\ reqs'[r].pc = "done") =>
         PageAnswer(reqs[r].q[2], Get(reqs[r].payload, "userId"),
                    reqs'[r].status, reqs'[r].out)
    ]_vars

\* the limit query value is absent or at least 1
PositiveLimit(q) == q.limit[2] >= 1

\* C21 for limits of at least 1: the same statement, for the requests
\* whose limit query value is absent or a positive integer.
C21_PaginationOfPositiveLimit ==
  [][\A r \in Slots :
       (reqs[r].pc = "counted" /\ reqs'[r].pc = "done" /\ PositiveLimit(reqs[r].q[2])) =>
         PageAnswer(reqs[r].q[2], Get(reqs[r].payload, "userId"),
                    reqs'[r].status, reqs'[r].out)
    ]_vars

(***************************************************************************)
(* Titles: a user creates, updates and deletes tasks with the titles a     *)
(* client can put into a body: a word, the empty text, a blank.            *)
(***************************************************************************)
TitleTexts == {<<"t">>, <<>>, <<" ">>}

TitleBodies ==
  {Obj(Title(s)) : s \in TitleTexts}
    \cup {Obj(<< <<"status", Str("COMPLETED")>> >>), Obj(<<>>)}

TitleArrive ==
  \E m \in Methods \ {"GET"} : Receive("r1", m, BearerOf(ValidToken("u1")))
TitleCreate == \E body \in TitleBodies : PostCreate("r1", body)
TitleUpdate == \E body \in TitleBodies : PatchUpdate("r1", body)

NextTitle ==
  \/ TitleArrive
  \/ Guard
  \/ TitleCreate
  \/ FindTask
  \/ TitleUpdate
  \/ DeleteTask

SpecTitle == Init /\ [][NextTitle]_vars

\* the stored title is not empty and not whitespace-only
BlankTitle(task) == Trim(task.title) = <<>>

\* C22: after any sequence of authenticated POST, PATCH, PUT and DELETE
\* requests, every stored task has a non-blank title.
C22_NonBlankTitles == \A t \in tasks : ~BlankTitle(t)

\* C22 for POST: a task is stored by a create only with a non-blank
\* title, and a DELETE leaves the titles of the other tasks as they are.
C22_CreatedNonBlank ==
  [][\A t \in tasks' : (\A x \in tasks : x.id # t.id) => ~BlankTitle(t)]_vars

(***************************************************************************)
(* A PATCH in one slot and a DELETE in the other, both by the user u1 who  *)
(* owns task 1; task 2 belongs to u2.  Their steps interleave freely.      *)
(***************************************************************************)
RaceBodies == {Obj(Title(<<"n">>)), Obj(<< <<"status", Str("COMPLETED")>> >>), Obj(<<>>)}

RacePatchArrive ==
  \E m \in {"PATCH", "PUT"} : Receive("r1", m, BearerOf(ValidToken("u1")))
RaceDeleteArrive == Receive("r2", "DELETE", BearerOf(ValidToken("u1")))
RacePatchGuard == Authenticate("r1")
RaceDeleteGuard == Authenticate("r2")
RacePatchFind == \E id \in TaskIds : PatchFind("r1", id)
RacePatchUpdate == \E body \in RaceBodies : PatchUpdate("r1", body)
RaceDelete == \E id \in TaskIds : Delete("r2", id)

NextRace ==
  \/ RacePatchArrive
  \/ RaceDeleteArrive
  \/ RacePatchGuard
  \/ RaceDeleteGuard
  \/ RacePatchFind
  \/ RacePatchUpdate
  \/ RaceDelete

SpecRace == InitUpdate /\ [][NextRace]_vars

\* the task with this id exists and belongs to the caller of request r
OwnTask(r, id) ==
  \E t \in tasks : t.id = id /\ t.userId = Get(reqs[r].payload, "userId")

\* request r is answered 404 'Task not found' and no task changes
NotFoundAnswer(r) ==
  /\ reqs'[r].status = 404
  /\ reqs'[r].error = "Task not found"
  /\ tasks' = tasks

\* C23: a PATCH whose task does not exist, or is not the caller's, when the
\* ownership check runs or when the update is applied, is answered 404
\* 'Task not found' and changes nothing, whatever a concurrent DELETE of
\* the same task by the same user did in between.
C23_PatchOfMissingTask ==
  [][\A r \in Slots :
       /\ \A id \in TaskIds : (PatchFind(r, id) /\ ~OwnTask(r, id)) => NotFoundAnswer(r)
       /\ (reqs[r].pc = "found" /\ reqs'[r].pc = "done"
             /\ reqs'[r].dbOps = reqs[r].dbOps + 1 /\ ~OwnTask(r, reqs[r].id))
            => NotFoundAnswer(r)
    ]_vars

\* C23 without the answer of the late case: a PATCH whose task is missing
\* or not the caller's at the ownership check is answered 404 'Task not
\* found'; one whose task was deleted after the check is answered with an
\* error status; neither changes any task.
C23_PatchOfMissingTaskFails ==
  [][\A r \in Slots :
       /\ \A id \in TaskIds : (PatchFind(r, id) /\ ~OwnTask(r, id)) => NotFoundAnswer(r)
       /\ (reqs[r].pc = "found" /\ reqs'[r].pc = "done" /\ ~OwnTask(r, reqs[r].id))
            => (reqs'[r].status >= 400 /\ tasks' = tasks)
    ]_vars

====
